---- MODULE Spec2Model ----
(***************************************************************************)
(* A model of SimplePFBot: the digest composer (bot.py, _create_embed),    *)
(* the roster renderer and role classification (bot.py, scrape.py), the    *)
(* update scheduler (main.py, PfMessageUpdater) and the recurring update   *)
(* loop (bot.py, _update_messages_periodically).                           *)
(*                                                                         *)
(* Strings whose content matters are sequences of character codes; strings *)
(* of which only the length matters are represented by their length.       *)
(***************************************************************************)
EXTENDS Integers, Sequences, FiniteSets, TLC

VARIABLES
    e_pc,        \* digest composer: "input" before the call, "done" after
    e_listings,  \* the listings argument of _create_embed
    e_title,     \* the title argument of _create_embed (its length)
    e_embed,     \* the discord.Embed returned by _create_embed
    r_pc,        \* roster renderer: "input" before the call, "done" after
    r_slot,      \* the PartySlot argument of _get_emoji_by_party_slot
    r_free,      \* free_slots: the optional attributes that are configured
    r_types,     \* per role of the slot: get_role_type() and get_slot_type()
    r_emoji,     \* what _get_emoji_by_party_slot returns or raises
    r_tier,      \* the return statement of the renderer that produced r_emoji
    proc,        \* the bot process: "idle", "running" or "exited"
    exc,         \* the exception on_ready logged before exit(1), or None
    channels,    \* the channel ids client.get_channel finds in its cache
    sink,        \* per tracked message id, the digest of its last edit
    u_fetched,   \* fetched_listings of the last update() that returned
    u_listings,  \* PfMessageUpdater.listings: target name -> filtered listings
    t_pc,        \* per on_ready task: where _update_messages_periodically is
    t_idx,       \* per task: the position of messages() in config.listings
    t_info,      \* per task: the MessageUpdate being handled, if any
    t_handled,   \* per task: what became of each target yielded this cycle
    p_pc,        \* a function called on its own: "input" before, "done" after
    p_call,      \* the name of that function
    p_args,      \* its arguments
    p_result     \* what it returns or raises

e_vars == <<e_pc, e_listings, e_title, e_embed>>
r_vars == <<r_pc, r_slot, r_free, r_types, r_emoji, r_tier>>
u_vars == <<u_fetched, u_listings>>
t_vars == <<t_pc, t_idx, t_info, t_handled>>
l_vars == <<proc, exc, channels, sink, u_vars, t_vars>>
p_vars == <<p_pc, p_call, p_args, p_result>>

vars == <<e_vars, r_vars, l_vars, p_vars>>

-----------------------------------------------------------------------------
(* Bounds of the model *)

MaxListings == 10
MaxRoles == 3
MaxReady == 2
MaxBatch == 3
MaxDesc == 5
MaxDivs == 3

-----------------------------------------------------------------------------
(* Digest composer: bot.py, DiscordClient._create_embed *)

FieldCap == 24
EmbedLimit == 6000
FooterLimit == 5999
FieldsPerListing == 3
FooterDivisor == 3
FooterFixedLen == 39

None == "None"

\* An optional text of the embed (description, footer) is Absent or <<v>>.
Absent == <<>>

\* Character codes of the characters used in expiry strings.
Ch5 == 53
Ch9 == 57
Chm == 109

\* Lengths of the configured decorative glyphs (EmbedCustomization).
UpdatedEmojiLen == 1
ExpiresEmojiLen == 1
NoPartyFindersMessageLen == 25

\* Listings as _create_embed reads them: creator, party (rendered roster),
\* tags and desc (the two halves of the description) and updated by length,
\* expires by content, since it is the sort key.
SmallListing ==
    [creator |-> 4, party |-> 2, tags |-> 0, desc |-> 0, updated |-> 2,
     expires |-> <<Ch5, Ch9, Chm>>]

BigListing ==
    [creator |-> 12, party |-> 1023, tags |-> 20, desc |-> 900, updated |-> 3,
     expires |-> <<Ch5, Chm>>]

ListingKinds == {SmallListing, BigListing}

TitleLens == {10, 30}

\* Python's str comparison: lexicographic by code point, a proper prefix
\* being smaller.
RECURSIVE StrLess(_, _)
StrLess(a, b) ==
    IF b = <<>> THEN FALSE
    ELSE IF a = <<>> THEN TRUE
    ELSE IF Head(a) # Head(b) THEN Head(a) < Head(b)
    ELSE StrLess(Tail(a), Tail(b))

\* sorted(listings, reverse=True, key=lambda x: x.expires): a stable sort,
\* descending by key; elements with equal keys keep their input order.
\* Each element is paired with its position in the input.
\* A variant that orders ascending, as sorted without reverse=True would.
RECURSIVE InsertDesc_Ascending(_, _)
InsertDesc_Ascending(srt, x) ==
    IF srt = <<>> THEN <<x>>
    ELSE IF StrLess(x.listing.expires, Head(srt).listing.expires)
         THEN <<x>> \o srt
         ELSE <<Head(srt)>> \o InsertDesc_Ascending(Tail(srt), x)

RECURSIVE InsertDesc(_, _)
InsertDesc(srt, x) ==
    IF srt = <<>> THEN <<x>>
    ELSE IF StrLess(Head(srt).listing.expires, x.listing.expires)
         THEN <<x>> \o srt
         ELSE <<Head(srt)>> \o InsertDesc(Tail(srt), x)

RECURSIVE SortedFrom(_, _, _)
SortedFrom(listings, k, acc) ==
    IF k > Len(listings) THEN acc
    ELSE SortedFrom(listings, k + 1,
                    InsertDesc(acc, [src |-> k, listing |-> listings[k]]))

sorted_by_expires(listings) == SortedFrom(listings, 1, <<>>)

\* The three embed.add_field calls of one listing.
ListingFields(x) ==
    << [src |-> x.src, name |-> x.listing.creator, value |-> x.listing.party],
       [src |-> x.src, name |-> x.listing.tags, value |-> x.listing.desc],
       [src |-> x.src,
        name |-> UpdatedEmojiLen + 1 + x.listing.updated,
        value |-> ExpiresEmojiLen + 1 + Len(x.listing.expires)] >>

RECURSIVE Digits(_)
Digits(n) == IF n < 10 THEN 1 ELSE 1 + Digits(n \div 10)

\* len(f"And {remaining // 3} more party finders that didn't fit")
FooterLen(shown) == FooterFixedLen + Digits(shown)

RECURSIVE FieldsLen(_)
FieldsLen(fields) ==
    IF fields = <<>> THEN 0
    ELSE Head(fields).name + Head(fields).value + FieldsLen(Tail(fields))

\* len(embed): title, description, every field's name and value, footer text.
EmbedLen(embed) ==
    embed.title
    + (IF embed.description = Absent THEN 0 ELSE NoPartyFindersMessageLen)
    + FieldsLen(embed.fields)
    + (IF embed.footer = Absent THEN 0 ELSE FooterLen(embed.footer[1]))

\* embed.remove_field(-1): deletes the last field, silently does nothing on
\* an embed without fields.
remove_field(fields) ==
    IF fields = <<>> THEN fields ELSE SubSeq(fields, 1, Len(fields) - 1)

RemoveListingFields(fields) == remove_field(remove_field(remove_field(fields)))

\* AddListings without the 24-field break of line 143.
RECURSIVE AddListings_NoFieldCap(_, _, _, _)
AddListings_NoFieldCap(srt, title, k, fields) ==
    IF k >= Len(srt) THEN [fields |-> fields, i |-> Len(srt) - 1]
    ELSE LET added == fields \o ListingFields(srt[k + 1])
             embed == [title |-> title, description |-> Absent,
                       fields |-> added, footer |-> Absent]
         IN  IF EmbedLen(embed) > EmbedLimit
             THEN [fields |-> RemoveListingFields(added), i |-> k]
             ELSE AddListings_NoFieldCap(srt, title, k + 1, added)

\* The for loop of _create_embed from iteration i = k on (0-based), with its
\* two breaks; yields the fields and the value of i when the loop is left.
RECURSIVE AddListings(_, _, _, _)
AddListings(srt, title, k, fields) ==
    IF k >= Len(srt) THEN [fields |-> fields, i |-> Len(srt) - 1]
    ELSE IF fields # <<>> /\ Len(fields) = FieldCap
         THEN [fields |-> fields, i |-> k]
    ELSE LET added == fields \o ListingFields(srt[k + 1])
             embed == [title |-> title, description |-> Absent,
                       fields |-> added, footer |-> Absent]
         IN  IF EmbedLen(embed) > EmbedLimit
             THEN [fields |-> RemoveListingFields(added), i |-> k]
             ELSE AddListings(srt, title, k + 1, added)

\* remaining = len(listings) - i - 1
Remaining(listings, i) == Len(listings) - i - 1

\* The number the footer shows for a given value of remaining.
FooterShown(remaining) == remaining \div FooterDivisor

\* The footer block of _create_embed (lines 162-174).
WithFooter(embed, remaining) ==
    IF remaining = 0 THEN embed
    ELSE LET first == [embed EXCEPT !.footer = <<FooterShown(remaining)>>]
         IN  IF EmbedLen(first) > FooterLimit
             THEN [first EXCEPT !.fields = RemoveListingFields(first.fields),
                                !.footer = <<FooterShown(remaining + 1)>>]
             ELSE first

\* _create_embed without the early return for an empty list (lines 130-135).
create_embed_NoEmptyCase(listings, title) ==
    LET loop == AddListings(sorted_by_expires(listings), title, 0, <<>>)
    IN  WithFooter([title |-> title, description |-> Absent,
                    fields |-> loop.fields, footer |-> Absent],
                   Remaining(listings, loop.i))

create_embed(listings, title) ==
    IF listings = <<>>
    THEN [title |-> title, description |-> <<"no_party_finders_message">>,
          fields |-> <<>>, footer |-> Absent]
    ELSE LET loop == AddListings(sorted_by_expires(listings), title, 0, <<>>)
         IN  WithFooter([title |-> title, description |-> Absent,
                         fields |-> loop.fields, footer |-> Absent],
                        Remaining(listings, loop.i))

-----------------------------------------------------------------------------
(* Domain model and classification: scrape.py *)

\* An exception leaving a call is modelled as the call's result.
AttributeError == "AttributeError"

TankRoles == {"GLA", "PLD", "MRD", "WAR", "DRK", "GNB"}
RegenHealerRoles == {"CNJ", "WHM", "AST"}
ShieldHealerRoles == {"SCH", "SGE"}
MeleeDpsRoles == {"PGL", "MNK", "LNC", "DRG", "ROG", "NIN", "SAM", "RPR", "VPR"}
RangedDpsRoles == {"ARC", "BRD", "MCH", "DNC"}
MagicalDpsRoles == {"THM", "BLM", "ACN", "SMN", "RDM", "BLU", "PCT"}
OtherRoles ==
    {"BTN", "MIN", "FSH", "CRP", "BSM", "ARM", "GSM", "LTW", "WVR", "ALC", "CUL"}

\* Role.__members__
RoleMembers ==
    TankRoles \cup RegenHealerRoles \cup ShieldHealerRoles \cup MeleeDpsRoles
        \cup RangedDpsRoles \cup MagicalDpsRoles \cup OtherRoles

\* Tokens of a slot's title attribute that are no member of Role.
RawTokens == {"XYZ", "pld", "TANK", "BST", "Any", "?", "DPS", "BRDX"}

\* The role token fallback of scrape_listings (lines 324-329): a token that
\* names a member becomes that member of Role, any other token stays the
\* str it is.
scrape_role(role_str) ==
    IF role_str \in RoleMembers
    THEN [type |-> "Role", value |-> role_str]
    ELSE [type |-> "str", value |-> role_str]

\* Every value that can stand in PartySlot.roles.
RoleValues == {scrape_role(tok) : tok \in RoleMembers \cup RawTokens}

\* The dict role_to_type of Role.get_role_type, as a set of keys per value.
role_to_type(role) ==
    CASE role.value \in TankRoles -> <<"TANK">>
      [] role.value \in RegenHealerRoles -> <<"REGEN_HEALER">>
      [] role.value \in ShieldHealerRoles -> <<"SHIELD_HEALER">>
      [] role.value \in MeleeDpsRoles -> <<"MELEE_DPS">>
      [] role.value \in RangedDpsRoles -> <<"RANGED_DPS">>
      [] role.value \in MagicalDpsRoles -> <<"MAGICAL_DPS">>
      [] role.value \in OtherRoles -> <<"OTHER">>
      [] OTHER -> <<>>

\* x.get_role_type(): role_to_type.get(self, RoleType.OTHER), a method of
\* Role; a str has no such attribute.
get_role_type(role) ==
    IF role.type # "Role" THEN AttributeError
    ELSE IF role_to_type(role) = <<>> THEN "OTHER"
    ELSE role_to_type(role)[1]

\* The dict role_to_slot of Role.get_slot_type.
role_to_slot(role) ==
    CASE role.value \in TankRoles -> <<"tank">>
      [] role.value \in RegenHealerRoles \cup ShieldHealerRoles -> <<"healer">>
      [] role.value \in MeleeDpsRoles \cup RangedDpsRoles \cup MagicalDpsRoles
            -> <<"dps">>
      [] role.value \in OtherRoles -> <<"other">>
      [] OTHER -> <<>>

\* x.get_slot_type(): role_to_slot.get(self, SlotType.OTHER), a method of
\* Role; a str has no such attribute.
get_slot_type(role) ==
    IF role.type # "Role" THEN AttributeError
    ELSE IF role_to_slot(role) = <<>> THEN "other"
    ELSE role_to_slot(role)[1]

\* str.lower() on the identifiers that occur as enum values.
lower(v) ==
    CASE v = "GLA" -> "gla" [] v = "PGL" -> "pgl" [] v = "MRD" -> "mrd"
      [] v = "LNC" -> "lnc" [] v = "ARC" -> "arc" [] v = "CNJ" -> "cnj"
      [] v = "THM" -> "thm" [] v = "PLD" -> "pld" [] v = "MNK" -> "mnk"
      [] v = "WAR" -> "war" [] v = "DRG" -> "drg" [] v = "BRD" -> "brd"
      [] v = "WHM" -> "whm" [] v = "BLM" -> "blm" [] v = "ACN" -> "acn"
      [] v = "SMN" -> "smn" [] v = "SCH" -> "sch" [] v = "ROG" -> "rog"
      [] v = "NIN" -> "nin" [] v = "MCH" -> "mch" [] v = "DRK" -> "drk"
      [] v = "AST" -> "ast" [] v = "SAM" -> "sam" [] v = "RDM" -> "rdm"
      [] v = "BLU" -> "blu" [] v = "GNB" -> "gnb" [] v = "DNC" -> "dnc"
      [] v = "RPR" -> "rpr" [] v = "SGE" -> "sge" [] v = "VPR" -> "vpr"
      [] v = "PCT" -> "pct" [] v = "BTN" -> "btn" [] v = "MIN" -> "min"
      [] v = "FSH" -> "fsh" [] v = "CRP" -> "crp" [] v = "BSM" -> "bsm"
      [] v = "ARM" -> "arm" [] v = "GSM" -> "gsm" [] v = "LTW" -> "ltw"
      [] v = "WVR" -> "wvr" [] v = "ALC" -> "alc" [] v = "CUL" -> "cul"
      [] v = "TANK" -> "tank" [] v = "REGEN_HEALER" -> "regen_healer"
      [] v = "SHIELD_HEALER" -> "shield_healer"
      [] v = "MELEE_DPS" -> "melee_dps" [] v = "RANGED_DPS" -> "ranged_dps"
      [] v = "MAGICAL_DPS" -> "magical_dps" [] v = "OTHER" -> "other"
      [] OTHER -> v

-----------------------------------------------------------------------------
(* Glyph tables: config.py *)

\* A glyph is named by its table and attribute; Python's None is NoEmoji.
NoEmoji == "None"

filled_glyph(attr) == "filled_slots." \o attr
free_glyph(attr) == "free_slots." \o attr

\* The attributes of FilledSlotEmojiCollection, all of type str.
FilledAttrs ==
    {lower(v) : v \in RoleMembers \ OtherRoles} \cup {"other"}

\* The attributes of FreeSlotEmojiCollection of type str.
FreeRequiredAttrs ==
    {"tank", "healer", "dps", "dps_healer", "dps_tank", "healer_tank",
     "dps_healer_tank", "other"}

\* The attributes of FreeSlotEmojiCollection of type Optional[str].
FreeRoleAttrs == {lower(v) : v \in RoleMembers \ OtherRoles}
FreeRoleTypeAttrs ==
    {"regen_healer", "shield_healer", "melee_dps", "ranged_dps", "magical_dps"}
FreeOptionalAttrs == FreeRoleAttrs \cup FreeRoleTypeAttrs

\* getattr(self.embed_custom.filled_slots, attr, default)
filled_getattr(attr, default) ==
    IF attr \in FilledAttrs THEN filled_glyph(attr) ELSE default

\* getattr(self.embed_custom.free_slots, attr, None); free is the set of the
\* optional attributes that hold a glyph, the others hold None.
free_getattr(free, attr) ==
    IF attr \in FreeRequiredAttrs \/ (attr \in FreeOptionalAttrs /\ attr \in free)
    THEN free_glyph(attr)
    ELSE NoEmoji

-----------------------------------------------------------------------------
(* Roster renderer: bot.py *)

Range(seq) == {seq[j] : j \in 1..Len(seq)}

\* _get_emoji_filled
get_emoji_filled(role) ==
    IF role.type # "Role" THEN AttributeError
    ELSE filled_getattr(lower(role.value), filled_glyph("other"))

\* _get_emoji_filled_by_slot_type
get_emoji_filled_by_slot_type(slot_type) ==
    CASE slot_type = "dps" -> get_emoji_filled(scrape_role("MNK"))
      [] slot_type = "healer" -> get_emoji_filled(scrape_role("WHM"))
      [] slot_type = "tank" -> get_emoji_filled(scrape_role("PLD"))
      [] OTHER -> filled_glyph("other")

\* _get_emoji_open_from_single_role
get_emoji_open_from_single_role(free, roles) ==
    IF Len(roles) = 1
    THEN IF roles[1].type # "Role" THEN AttributeError
         ELSE free_getattr(free, lower(roles[1].value))
    ELSE NoEmoji

\* A variant of _get_emoji_open_from_role_types without the getattr for a
\* single role type.
get_emoji_open_from_role_types_NoSingleType(free, roles) ==
    LET role_types == {get_role_type(x) : x \in Range(roles)}
    IN  IF AttributeError \in role_types THEN AttributeError
        ELSE IF "OTHER" \in role_types THEN free_glyph("other")
        ELSE NoEmoji

\* _get_emoji_open_from_role_types
get_emoji_open_from_role_types(free, roles) ==
    LET role_types == {get_role_type(x) : x \in Range(roles)}
    IN  IF AttributeError \in role_types THEN AttributeError
        ELSE IF "OTHER" \in role_types THEN free_glyph("other")
        ELSE IF Cardinality(role_types) = 1
             THEN free_getattr(free, lower(CHOOSE x \in role_types : TRUE))
        ELSE NoEmoji

\* A variant of _get_emoji_open_from_slot_types that looks at the first and
\* the last role only and in that order.
get_emoji_open_from_slot_types_Ordered(free, roles) ==
    LET first == get_slot_type(roles[1])
        last == get_slot_type(roles[Len(roles)])
    IN  IF AttributeError \in {first, last} THEN AttributeError
        ELSE IF "other" \in {first, last} THEN free_glyph("other")
        ELSE IF first = last THEN free_getattr(free, first)
        ELSE IF first = "dps" /\ last = "healer" THEN free_glyph("dps_healer")
        ELSE IF first = "dps" /\ last = "tank" THEN free_glyph("dps_tank")
        ELSE IF first = "healer" /\ last = "tank" THEN free_glyph("healer_tank")
        ELSE NoEmoji

\* A variant of _get_emoji_open_from_slot_types without the case of three
\* slot types.
get_emoji_open_from_slot_types_NoTriple(free, roles) ==
    LET slot_types == {get_slot_type(x) : x \in Range(roles)}
        single == free_getattr(free, lower(CHOOSE x \in slot_types : TRUE))
    IN  IF AttributeError \in slot_types THEN AttributeError
        ELSE IF "other" \in slot_types THEN free_glyph("other")
        ELSE IF Cardinality(slot_types) = 1 /\ single # NoEmoji THEN single
        ELSE IF Cardinality(slot_types) = 2 /\ {"dps", "healer"} \subseteq slot_types
             THEN free_glyph("dps_healer")
        ELSE IF Cardinality(slot_types) = 2 /\ {"dps", "tank"} \subseteq slot_types
             THEN free_glyph("dps_tank")
        ELSE IF Cardinality(slot_types) = 2 /\ {"healer", "tank"} \subseteq slot_types
             THEN free_glyph("healer_tank")
        ELSE NoEmoji

\* _get_emoji_open_from_slot_types
get_emoji_open_from_slot_types(free, roles) ==
    LET slot_types == {get_slot_type(x) : x \in Range(roles)}
        single == free_getattr(free, lower(CHOOSE x \in slot_types : TRUE))
    IN  IF AttributeError \in slot_types THEN AttributeError
        ELSE IF "other" \in slot_types THEN free_glyph("other")
        ELSE IF Cardinality(slot_types) = 1 /\ single # NoEmoji THEN single
        ELSE IF Cardinality(slot_types) = 2 /\ {"dps", "healer"} \subseteq slot_types
             THEN free_glyph("dps_healer")
        ELSE IF Cardinality(slot_types) = 2 /\ {"dps", "tank"} \subseteq slot_types
             THEN free_glyph("dps_tank")
        ELSE IF Cardinality(slot_types) = 2 /\ {"healer", "tank"} \subseteq slot_types
             THEN free_glyph("healer_tank")
        ELSE IF Cardinality(slot_types) = 3
             THEN free_glyph("dps_healer_tank")
        ELSE NoEmoji

\* _get_emoji_open
get_emoji_open(free, roles) ==
    LET single == get_emoji_open_from_single_role(free, roles)
        by_role == get_emoji_open_from_role_types(free, roles)
        by_slot == get_emoji_open_from_slot_types(free, roles)
    IN  IF roles = <<>> THEN free_glyph("other")
        ELSE IF single # NoEmoji THEN single
        ELSE IF by_role # NoEmoji THEN by_role
        ELSE IF by_slot # NoEmoji THEN by_slot
        ELSE free_glyph("other")

\* Whether _get_emoji_open leaves by the logged fallback of lines 220-224.
open_fallback_reached(free, roles) ==
    /\ roles # <<>>
    /\ get_emoji_open_from_single_role(free, roles) = NoEmoji
    /\ get_emoji_open_from_role_types(free, roles) = NoEmoji
    /\ get_emoji_open_from_slot_types(free, roles) = NoEmoji

\* _get_emoji_by_party_slot
get_emoji_by_party_slot(free, slot) ==
    IF slot.state = "filled"
    THEN IF Len(slot.roles) = 0
         THEN get_emoji_filled_by_slot_type(slot.slot_type)
         ELSE get_emoji_filled(slot.roles[1])
    ELSE get_emoji_open(free, slot.roles)

\* The return statement by which _get_emoji_open leaves (lines 204-224), or
\* "raised" when a tier raises before any returns.
open_tier(free, roles) ==
    LET single == get_emoji_open_from_single_role(free, roles)
        by_role == get_emoji_open_from_role_types(free, roles)
        by_slot == get_emoji_open_from_slot_types(free, roles)
    IN  IF roles = <<>> THEN "no_roles"
        ELSE IF single = AttributeError THEN "raised"
        ELSE IF single # NoEmoji THEN "single_role"
        ELSE IF by_role = AttributeError THEN "raised"
        ELSE IF by_role # NoEmoji THEN "role_types"
        ELSE IF by_slot = AttributeError THEN "raised"
        ELSE IF by_slot # NoEmoji THEN "slot_types"
        ELSE "fallback"

\* The return statement by which _get_emoji_by_party_slot leaves (lines
\* 189-202).
tier_of_party_slot(free, slot) ==
    IF slot.state = "filled"
    THEN IF Len(slot.roles) = 0 THEN "filled_by_slot_type"
         ELSE IF get_emoji_filled(slot.roles[1]) = AttributeError THEN "raised"
         ELSE "filled"
    ELSE open_tier(free, slot.roles)

\* _emojify_party: the glyphs of the slots in order, which " ".join makes
\* one string; <<AttributeError>> when rendering a slot raises it.
emojify_party(free, party) ==
    LET glyphs == [j \in 1..Len(party) |-> get_emoji_by_party_slot(free, party[j])]
    IN  IF AttributeError \in Range(glyphs) THEN <<AttributeError>> ELSE glyphs

\* The roles a slot of the renderer's inputs may list: some roles of every
\* role type and a raw token, in lists of up to MaxRoles, and every value of
\* PartySlot.roles alone.
SampleRoles ==
    {scrape_role(tok) :
        tok \in {"PLD", "WAR", "WHM", "SCH", "MNK", "BRD", "BTN", "XYZ"}}

RoleLists ==
    UNION {[1..n -> SampleRoles] : n \in 0..MaxRoles}
        \cup {<<r>> : r \in RoleValues}

SlotInputs ==
    [state : {"filled", "open"},
     slot_type : {"dps", "healer", "tank", "other"},
     roles : RoleLists]

\* Configurations of the optional glyphs: none, the role types only, the
\* roles only, one role and one role type, all.
FreeConfigs ==
    {{}, FreeRoleTypeAttrs, FreeRoleAttrs, {"whm", "shield_healer"},
     FreeOptionalAttrs}

-----------------------------------------------------------------------------
(* Listing filter: scrape.py; update scheduler: main.py *)

DataCentreMembers ==
    {"Crystal", "Dynamis", "Light", "Materia", "Gaia", "Meteor", "Chaos",
     "Primal", "Elemental", "Mana", "Aether"}

\* The data centre fallback of scrape_listings (lines 262-268): a known
\* value becomes the member of DataCentre, any other stays the str it is.
scrape_data_centre(data_centre_str) ==
    IF data_centre_str \in DataCentreMembers
    THEN [type |-> "DataCentre", value |-> data_centre_str]
    ELSE [type |-> "str", value |-> data_centre_str]

\* A variant of filter_listings that keeps a listing matching either field.
filter_listings_EitherField(listings, duty_name, data_centre) ==
    SelectSeq(listings,
              LAMBDA listing : \/ listing.duty_name = duty_name
                               \/ listing.data_centre = data_centre)

\* filter_listings
filter_listings(listings, duty_name, data_centre) ==
    SelectSeq(listings,
              LAMBDA listing : /\ listing.duty_name = duty_name
                               /\ listing.data_centre = data_centre)

\* config.listings: the tracked targets (ListingConfig), with unique names.
Targets ==
    << [name |-> "ChaosM4S", duty_name |-> "M4S",
        data_centre |-> scrape_data_centre("Chaos"),
        channel_id |-> 1, message_id |-> 11],
       [name |-> "LightM4S", duty_name |-> "M4S",
        data_centre |-> scrape_data_centre("Light"),
        channel_id |-> 2, message_id |-> 12] >>

TargetNames == {Targets[k].name : k \in 1..Len(Targets)}
ChannelIds == {Targets[k].channel_id : k \in 1..Len(Targets)}
MessageIds == {Targets[k].message_id : k \in 1..Len(Targets)}

\* The last target of config.listings with the given name: the one whose
\* assignment to self.listings[name] stays.
LastTargetNamed(name) ==
    Targets[CHOOSE k \in 1..Len(Targets) :
                /\ Targets[k].name = name
                /\ \A j \in (k + 1)..Len(Targets) : Targets[j].name # name]

\* update() with the duty name as the only filter.
pf_update_DutyOnly(fetched_listings) ==
    [name \in TargetNames |->
        SelectSeq(fetched_listings,
                  LAMBDA listing :
                      listing.duty_name = LastTargetNamed(name).duty_name)]

\* PfMessageUpdater.update, after scrape_listings returned: self.listings.
pf_update(fetched_listings) ==
    [name \in TargetNames |->
        filter_listings(fetched_listings,
                        LastTargetNamed(name).duty_name,
                        LastTargetNamed(name).data_centre)]

\* The MessageUpdate that PfMessageUpdater.messages yields for target k.
MessageUpdate(k, listings) ==
    [channel_id |-> Targets[k].channel_id,
     message_id |-> Targets[k].message_id,
     content |-> listings[Targets[k].name],
     title |-> Targets[k].duty_name]

\* Listings as the scraper returns them, by the fields the loop reads.
Slot(state, slot_type, tokens) ==
    [state |-> state, slot_type |-> slot_type,
     roles |-> [j \in 1..Len(tokens) |-> scrape_role(tokens[j])]]

ListingChaos ==
    [duty_name |-> "M4S", data_centre |-> scrape_data_centre("Chaos"),
     creator |-> "Ann",
     party |-> <<Slot("filled", "tank", <<"PLD">>),
                 Slot("open", "healer", <<"WHM", "SCH">>)>>]

ListingChaosLate ==
    [duty_name |-> "M4S", data_centre |-> scrape_data_centre("Chaos"),
     creator |-> "Bob",
     party |-> <<Slot("open", "dps", <<"MNK">>)>>]

ListingLight ==
    [duty_name |-> "M4S", data_centre |-> scrape_data_centre("Light"),
     creator |-> "Cid",
     party |-> <<Slot("filled", "dps", <<>>)>>]

ListingOtherDuty ==
    [duty_name |-> "M3S", data_centre |-> scrape_data_centre("Chaos"),
     creator |-> "Dee",
     party |-> <<Slot("open", "tank", <<"WAR">>)>>]

ListingRawCentre ==
    [duty_name |-> "M4S", data_centre |-> scrape_data_centre("Shadow"),
     creator |-> "Eve",
     party |-> <<Slot("open", "other", <<>>)>>]

\* A listing one of whose slots names a role the scraper does not know.
ListingRawRole ==
    [duty_name |-> "M4S", data_centre |-> scrape_data_centre("Light"),
     creator |-> "Fay",
     party |-> <<Slot("open", "dps", <<"BRD", "XYZ">>)>>]

\* What scrape_listings may return.
Batches ==
    { <<ListingLight, ListingChaosLate, ListingRawCentre, ListingChaos>>,
      <<ListingChaos, ListingOtherDuty, ListingRawRole>> }

\* What scrape_listings may raise: raise_for_status (line 249), int() of a
\* numeric field (lines 292-335).
ScrapeErrors == {"HTTPError", "ValueError"}

\* What channel.fetch_message may raise besides discord.NotFound, and what
\* message.edit may raise: discord.HTTPException or a subclass of it.
SinkErrors == {"HTTPException"}

-----------------------------------------------------------------------------
(* Recurring update loop: bot.py *)

\* The optional glyphs of the embed_custom the bot runs with.
embed_custom_free == FreeRoleTypeAttrs

\* _create_embed(info.content, info.title) in the loop: the exception
\* _emojify_party raises for one of the listings, or the digest, named by
\* the title and the rosters it is composed of (the batches of this model
\* stay below the caps of the digest composer, so every listing is rendered).
embed_of(info) ==
    [title |-> info.title,
     rosters |-> [j \in 1..Len(info.content) |->
                     [creator |-> info.content[j].creator,
                      party |-> emojify_party(embed_custom_free,
                                              info.content[j].party)]]]

\* Whether that call raises instead of returning.
embed_raises(info) ==
    \E j \in 1..Len(info.content) :
        emojify_party(embed_custom_free, info.content[j].party)
            = <<AttributeError>>

Tasks == 1..MaxReady

\* The for loop over messages.messages() of lines 101-108, broken off at the
\* first missing channel instead of continuing.
drain_BreakOnMissingChannel(k, handled, listings) ==
    IF k > Len(Targets)
    THEN [pc |-> "sleep", idx |-> 0, info |-> <<>>, handled |-> handled]
    ELSE IF Targets[k].channel_id \notin channels
         THEN [pc |-> "sleep", idx |-> 0, info |-> <<>>,
               handled |-> Append(handled, "no_channel")]
         ELSE [pc |-> "fetch_message", idx |-> k,
               info |-> <<MessageUpdate(k, listings)>>, handled |-> handled]

\* The for loop over messages.messages() from target k on, up to its next
\* suspension: await channel.fetch_message for the first target whose channel
\* is found (lines 101-111), or await asyncio.sleep after the last (line 125).
RECURSIVE drain(_, _, _)
drain(k, handled, listings) ==
    IF k > Len(Targets)
    THEN [pc |-> "sleep", idx |-> 0, info |-> <<>>, handled |-> handled]
    ELSE IF Targets[k].channel_id \notin channels
         THEN drain(k + 1, Append(handled, "no_channel"), listings)
         ELSE [pc |-> "fetch_message", idx |-> k,
               info |-> <<MessageUpdate(k, listings)>>, handled |-> handled]

\* The task t is suspended at the position pos.
Suspend(t, pos) ==
    /\ t_pc' = [t_pc EXCEPT ![t] = pos.pc]
    /\ t_idx' = [t_idx EXCEPT ![t] = pos.idx]
    /\ t_info' = [t_info EXCEPT ![t] = pos.info]
    /\ t_handled' = [t_handled EXCEPT ![t] = pos.handled]

\* except Exception of on_ready (lines 70-72): log the traceback, exit(1).
\* The process ends, and with it the client and every task; the messages
\* of the chat platform stay as they are, and the updater's fields are kept
\* as the failing statement left them.
Exit(e) ==
    /\ proc' = "exited"
    /\ exc' = e
    /\ channels' = {}
    /\ UNCHANGED u_vars
    /\ t_pc' = [t \in Tasks |-> "none"]
    /\ t_idx' = [t \in Tasks |-> 0]
    /\ t_info' = [t \in Tasks |-> <<>>]
    /\ t_handled' = [t \in Tasks |-> <<>>]
    /\ UNCHANGED <<sink, e_vars, r_vars, p_vars>>

\* The chat platform delivers a ready event: on_ready starts a task running
\* _update_messages_periodically (lines 66-69).
OnReady(t) ==
    /\ proc = "running"
    /\ t_pc[t] = "none"
    /\ \A s \in 1..(t - 1) : t_pc[s] # "none"
    /\ t_pc' = [t_pc EXCEPT ![t] = "start"]
    /\ UNCHANGED <<proc, exc, channels, sink, u_vars, t_idx, t_info, t_handled>>
    /\ UNCHANGED <<e_vars, r_vars, p_vars>>

\* The top of while True, first or after the sleep: messages.update()
\* returns, and the for loop runs up to its first suspension.
CycleRuns(t, batch) ==
    /\ proc = "running"
    /\ t_pc[t] \in {"start", "sleep"}
    /\ u_fetched' = <<batch>>
    /\ u_listings' = pf_update(batch)
    /\ Suspend(t, drain(1, <<>>, u_listings'))
    /\ UNCHANGED <<proc, exc, channels, sink, e_vars, r_vars, p_vars>>

\* A variant in which update() empties self.listings before it calls
\* scrape_listings.
CycleFetchFails_ClearsFirst(t, e) ==
    /\ proc = "running"
    /\ t_pc[t] \in {"start", "sleep"}
    /\ proc' = "exited"
    /\ exc' = e
    /\ channels' = {}
    /\ u_listings' = <<>>
    /\ t_pc' = [s \in Tasks |-> "none"]
    /\ t_idx' = [s \in Tasks |-> 0]
    /\ t_info' = [s \in Tasks |-> <<>>]
    /\ t_handled' = [s \in Tasks |-> <<>>]
    /\ UNCHANGED <<u_fetched, sink, e_vars, r_vars, p_vars>>

\* The top of while True: scrape_listings raises inside messages.update().
CycleFetchFails(t, e) ==
    /\ proc = "running"
    /\ t_pc[t] \in {"start", "sleep"}
    /\ Exit(e)

\* await channel.fetch_message returns the message: the embed is composed
\* and message.edit awaited (lines 117-123), unless composing it raises.
FetchFound(t) ==
    /\ proc = "running"
    /\ t_pc[t] = "fetch_message"
    /\ IF embed_raises(t_info[t][1])
       THEN Exit(AttributeError)
       ELSE /\ t_pc' = [t_pc EXCEPT ![t] = "edit"]
            /\ UNCHANGED <<proc, exc, channels, sink, u_vars,
                           t_idx, t_info, t_handled, e_vars, r_vars, p_vars>>

\* await channel.fetch_message raises discord.NotFound (lines 112-116).
FetchNotFound(t) ==
    /\ proc = "running"
    /\ t_pc[t] = "fetch_message"
    /\ Suspend(t, drain(t_idx[t] + 1, Append(t_handled[t], "no_message"),
                        u_listings))
    /\ UNCHANGED <<proc, exc, channels, sink, u_vars, e_vars, r_vars, p_vars>>

\* await channel.fetch_message raises another exception.
FetchFails(t, e) ==
    /\ proc = "running"
    /\ t_pc[t] = "fetch_message"
    /\ Exit(e)

\* await message.edit returns: the message shows the digest.
EditDone(t) ==
    /\ proc = "running"
    /\ t_pc[t] = "edit"
    /\ sink' = [sink EXCEPT ![t_info[t][1].message_id] = <<embed_of(t_info[t][1])>>]
    /\ Suspend(t, drain(t_idx[t] + 1, Append(t_handled[t], "edited"),
                        u_listings))
    /\ UNCHANGED <<proc, exc, channels, u_vars, e_vars, r_vars, p_vars>>

\* await message.edit raises.
EditFails(t, e) ==
    /\ proc = "running"
    /\ t_pc[t] = "edit"
    /\ Exit(e)

\* The platform adds a channel to the client's cache or takes it away.
ChannelCacheChanges(c) ==
    /\ proc = "running"
    /\ channels' = IF c \in channels THEN channels \ {c} ELSE channels \cup {c}
    /\ UNCHANGED <<proc, exc, sink, u_vars, t_vars, e_vars, r_vars, p_vars>>

-----------------------------------------------------------------------------
(* Specifications *)

ListingInputs == UNION {[1..n -> ListingKinds] : n \in 0..MaxListings}

\* Each specification runs one component and holds the others still.
EmbedIdle ==
    /\ e_pc = "idle"
    /\ e_listings = <<>>
    /\ e_title = 0
    /\ e_embed = None

RenderIdle ==
    /\ r_pc = "idle"
    /\ r_slot = None
    /\ r_free = {}
    /\ r_types = <<>>
    /\ r_emoji = NoEmoji
    /\ r_tier = None

PureIdle ==
    /\ p_pc = "idle"
    /\ p_call = None
    /\ p_args = <<>>
    /\ p_result = None

LoopIdle ==
    /\ proc = "idle"
    /\ exc = None
    /\ channels = {}
    /\ sink = <<>>
    /\ u_fetched = <<>>
    /\ u_listings = <<>>
    /\ t_pc = <<>>
    /\ t_idx = <<>>
    /\ t_info = <<>>
    /\ t_handled = <<>>

EmbedInit ==
    /\ e_pc = "input"
    /\ e_listings \in ListingInputs
    /\ e_title \in TitleLens
    /\ e_embed = None
    /\ RenderIdle
    /\ LoopIdle
    /\ PureIdle

Compose ==
    /\ e_pc = "input"
    /\ e_embed' = create_embed(e_listings, e_title)
    /\ e_pc' = "done"
    /\ UNCHANGED <<e_listings, e_title>>
    /\ UNCHANGED <<r_vars, l_vars, p_vars>>

RenderInit ==
    /\ r_pc = "input"
    /\ r_slot \in SlotInputs
    /\ r_free \in FreeConfigs
    /\ r_types = <<>>
    /\ r_emoji = NoEmoji
    /\ r_tier = None
    /\ EmbedIdle
    /\ LoopIdle
    /\ PureIdle

\* The classification of every role of the slot, then the slot's glyph.
RenderSlot ==
    /\ r_pc = "input"
    /\ r_types' = [j \in 1..Len(r_slot.roles) |->
                     [role_type |-> get_role_type(r_slot.roles[j]),
                      slot_type |-> get_slot_type(r_slot.roles[j])]]
    /\ r_emoji' = get_emoji_by_party_slot(r_free, r_slot)
    /\ r_tier' = tier_of_party_slot(r_free, r_slot)
    /\ r_pc' = "done"
    /\ UNCHANGED <<r_slot, r_free>>
    /\ UNCHANGED <<e_vars, l_vars, p_vars>>

EmbedNext == Compose

SpecEmbed == EmbedInit /\ [][EmbedNext]_vars

RenderNext == RenderSlot

SpecRender == RenderInit /\ [][RenderNext]_vars

\* run_bot: the updater and the client are constructed, client.run started.
Init ==
    /\ proc = "running"
    /\ exc = None
    /\ channels \in SUBSET ChannelIds
    /\ sink = [m \in MessageIds |-> <<>>]
    /\ u_fetched = <<>>
    /\ u_listings = <<>>
    /\ t_pc = [t \in Tasks |-> "none"]
    /\ t_idx = [t \in Tasks |-> 0]
    /\ t_info = [t \in Tasks |-> <<>>]
    /\ t_handled = [t \in Tasks |-> <<>>]
    /\ EmbedIdle
    /\ RenderIdle
    /\ PureIdle

Next ==
    \/ \E t \in Tasks : OnReady(t)
    \/ \E t \in Tasks, batch \in Batches :
          CycleRuns(t, batch)
    \/ \E t \in Tasks, e \in ScrapeErrors :
          CycleFetchFails(t, e)
    \/ \E t \in Tasks : FetchFound(t)
    \/ \E t \in Tasks : FetchNotFound(t)
    \/ \E t \in Tasks, e \in SinkErrors :
          FetchFails(t, e)
    \/ \E t \in Tasks : EditDone(t)
    \/ \E t \in Tasks, e \in SinkErrors :
          EditFails(t, e)
    \/ \E c \in ChannelIds :
          ChannelCacheChanges(c)

Spec == Init /\ [][Next]_vars

-----------------------------------------------------------------------------
\* Helpers for the statements about the digest.

\* The listings of the input whose fields are in the embed.
EmittedSrcs(embed) == {embed.fields[j].src : j \in 1..Len(embed.fields)}

NotEmitted == Len(e_listings) - Cardinality(EmittedSrcs(e_embed))

EmbedDone == e_pc = "done"

\* The size of the title with the fields of the first eight listings (or of
\* all, when there are fewer) of the sorted input: no listing breaches the
\* size budget of line 156 exactly when this is within the budget.
RECURSIVE LeadingFields(_, _)
LeadingFields(srt, n) ==
    IF n = 0 \/ srt = <<>> THEN <<>>
    ELSE ListingFields(Head(srt)) \o LeadingFields(Tail(srt), n - 1)

LeadingSize ==
    e_title + FieldsLen(LeadingFields(sorted_by_expires(e_listings),
                                      FieldCap \div FieldsPerListing))

NoSizeBreach == LeadingSize <= EmbedLimit

\* C1: for a non-empty input the digest carries an overflow caption showing
\* the number k of listings that were not emitted when k > 0, and no caption
\* when every listing was emitted.
C1_CaptionCountsOmitted ==
    (EmbedDone /\ e_listings # <<>>)
        => IF NotEmitted > 0
           THEN e_embed.footer = <<NotEmitted>>
           ELSE e_embed.footer = Absent

\* C2: the serialized size of the returned digest (title, fields, overflow
\* caption) never exceeds 6000.
C2_DigestWithinBudget == EmbedDone => EmbedLen(e_embed) <= EmbedLimit

\* C3 as stated: at most 24 fields, a multiple of 3, and exactly 24 fields
\* when more than 8 listings are given and none breaches the size budget.
C3_Original ==
    EmbedDone =>
        /\ Len(e_embed.fields) <= FieldCap
        /\ Len(e_embed.fields) % FieldsPerListing = 0
        /\ (Len(e_listings) * FieldsPerListing > FieldCap /\ NoSizeBreach)
               => Len(e_embed.fields) = FieldCap

\* C3 as amended: at most 24 fields, a multiple of 3; when more than 8
\* listings are given and none breaches the size budget, 24 fields are
\* emitted unless the overflow caption set for the listings after the ninth
\* pushes the digest over 5999, and then exactly one listing is taken away
\* again and 21 fields are emitted.
C3_FieldCount ==
    EmbedDone =>
        /\ Len(e_embed.fields) <= FieldCap
        /\ Len(e_embed.fields) % FieldsPerListing = 0
        /\ (Len(e_listings) * FieldsPerListing > FieldCap /\ NoSizeBreach)
               => LET after == Len(e_listings) - FieldCap \div FieldsPerListing - 1
                      over == /\ after > 0
                              /\ LeadingSize + FooterLen(after \div FooterDivisor)
                                    > FooterLimit
                  IN  Len(e_embed.fields) =
                        IF over THEN FieldCap - FieldsPerListing ELSE FieldCap

C3_Witness ==
    /\ EmbedDone
    /\ Len(e_listings) * FieldsPerListing > FieldCap
    /\ NoSizeBreach
    /\ Len(e_embed.fields) = FieldCap
    /\ e_embed.footer # Absent

\* C10: composing an empty sequence of listings gives the title, the
\* configured empty-state message as the one placeholder entry, no fields and
\* no overflow caption.
C10_EmptyDigest ==
    (EmbedDone /\ e_listings = <<>>)
        => e_embed = [title |-> e_title,
                      description |-> <<"no_party_finders_message">>,
                      fields |-> <<>>,
                      footer |-> Absent]

C10_Witness ==
    /\ EmbedDone
    /\ e_listings = <<>>
    /\ e_embed.description # Absent

-----------------------------------------------------------------------------
\* Statements about classification.

RenderDone == r_pc = "done"

\* C4: get_role_type and get_slot_type raise for no value that can stand in
\* PartySlot.roles, and map every value outside the known table, the raw
\* string variant included, to Other.
C4_ClassificationTotal ==
    RenderDone =>
        \A j \in 1..Len(r_slot.roles) :
            /\ r_types[j].role_type # AttributeError
            /\ r_types[j].slot_type # AttributeError
            /\ r_slot.roles[j].value \notin RoleMembers
                  => /\ r_types[j].role_type = "OTHER"
                     /\ r_types[j].slot_type = "other"

-----------------------------------------------------------------------------
\* Statements about the recurring update loop.

InDispatch(t) == t_pc[t] \in {"fetch_message", "edit"}

\* C5: no error of one record or one target ends the loop: the process
\* never exits on the exception raised for an unrecognized role token or on
\* the failure of the message sink for one target.
C5_EntryErrorsKeepLoopAlive ==
    proc = "exited" => exc \notin ({AttributeError} \cup SinkErrors)

\* C6: a fetch failure inside update() ends only the current cycle: the
\* process never exits on it, so the loop is there to try again.
C6_FetchFailureKeepsLoopAlive ==
    proc = "exited" => exc # "HTTPError"

\* C7: at most one update cycle is in flight at any time: no two tasks are
\* dispatching the pending updates of their cycles at once.
C7_OneCycleInFlight ==
    Cardinality({t \in Tasks : InDispatch(t)}) <= 1

\* The entries of this cycle's record of task t: one per target yielded and
\* dealt with, the target in flight not yet among them.
HandledInOrder(t) ==
    /\ t_pc[t] = "sleep" => Len(t_handled[t]) = Len(Targets)
    /\ InDispatch(t) => Len(t_handled[t]) = t_idx[t] - 1

\* The targets task t dealt with in this step.
NewlyHandled(t) ==
    IF <<t_pc'[t], t_idx'[t], t_handled'[t]>> = <<t_pc[t], t_idx[t], t_handled[t]>>
    THEN {}
    ELSE IF t_pc[t] \in {"start", "sleep"}
         THEN 1..Len(t_handled'[t])
         ELSE (Len(t_handled[t]) + 1)..Len(t_handled'[t])

\* C8: a target whose channel or message is not found is skipped without an
\* edit, every later target of the cycle is still dealt with, and the task
\* then sleeps: a cycle ends in the sleep with every target dealt with, a
\* target recorded as not found really had no channel in the cache, and the
\* sink changes only for the one target recorded as edited.
C8_NotFoundSkipsOneTarget ==
    [][\A t \in Tasks :
          /\ HandledInOrder(t)'
          /\ \A k \in NewlyHandled(t) :
                /\ t_handled'[t][k] = "no_channel"
                      => Targets[k].channel_id \notin channels
                /\ t_handled'[t][k] \in {"no_channel", "no_message"}
                      => sink'[Targets[k].message_id] = sink[Targets[k].message_id]
                /\ t_handled'[t][k] = "no_message"
                      => t_pc[t] = "fetch_message" /\ t_idx[t] = k
          /\ (\A s \in Tasks : \A k \in NewlyHandled(s) :
                  t_handled'[s][k] # "edited") => sink' = sink
      ]_vars

C8_Witness ==
    \E t \in Tasks :
        /\ t_pc[t] = "sleep"
        /\ t_handled[t] = <<"no_message", "edited">>
        /\ sink[Targets[1].message_id] = <<>>
        /\ sink[Targets[2].message_id] # <<>>

\* Task t is handed a MessageUpdate by messages() in this step.
Yielded(t) ==
    /\ t_pc'[t] = "fetch_message"
    /\ <<t_pc[t], t_idx[t]>> # <<t_pc'[t], t_idx'[t]>>

\* C9: what messages() yields for a target carries the target's channel id
\* and message id and, as content, the filter of the batch of the most recent
\* update() by the target's duty name and data centre; the targets come one
\* by one in configuration order, and a drain starts only after the update()
\* of its cycle.
C9_PendingUpdatesFromLastRefresh ==
    [][\A t \in Tasks :
          Yielded(t) =>
              LET k == t_idx'[t]
              IN  /\ u_fetched' # <<>>
                  /\ Len(t_handled'[t]) = k - 1
                  /\ t_pc[t] \in {"start", "sleep"}
                        => \A j \in 1..(k - 1) : t_handled'[t][j] = "no_channel"
                  /\ t_info'[t] =
                        << [channel_id |-> Targets[k].channel_id,
                            message_id |-> Targets[k].message_id,
                            content |-> filter_listings(u_fetched'[1],
                                                        Targets[k].duty_name,
                                                        Targets[k].data_centre),
                            title |-> Targets[k].duty_name] >>
      ]_vars

C9_Witness ==
    \E t \in Tasks :
        /\ t_pc[t] = "fetch_message"
        /\ t_idx[t] = 2
        /\ t_handled[t] = <<"edited">>
        /\ t_info[t][1].content = <<ListingLight>>
        /\ Len(u_fetched[1]) > 1

-----------------------------------------------------------------------------
\* Helpers for the statements about the order of the digest.

\* The emitted listings, by their position in the input, in digest order.
EmittedOrder ==
    [j \in 1..(Len(e_embed.fields) \div FieldsPerListing) |->
        e_embed.fields[FieldsPerListing * (j - 1) + 1].src]

ExpiresOf(src) == e_listings[src].expires

\* The listing at input position a stands before the one at position b in
\* the descending order of the expiry strings, ties in input order.
StandsBefore(a, b) ==
    \/ StrLess(ExpiresOf(b), ExpiresOf(a))
    \/ (ExpiresOf(a) = ExpiresOf(b) /\ a < b)

Expires59m == <<Ch5, Ch9, Chm>>
Expires5m == <<Ch5, Chm>>

EmittedDescending ==
    /\ \A i, j \in DOMAIN EmittedOrder :
          i < j => StandsBefore(EmittedOrder[i], EmittedOrder[j])
    /\ \A i \in DOMAIN EmittedOrder :
          \A x \in (1..Len(e_listings)) \ EmittedSrcs(e_embed) :
             StandsBefore(EmittedOrder[i], x)

\* C11 as stated: the emitted listings are in descending lexical order of
\* their expiry strings and are the leading listings of that order, and a
\* listing expiring "59m" is emitted before one expiring "5m".
C11_Original ==
    EmbedDone =>
        /\ EmittedDescending
        /\ \A i, j \in DOMAIN EmittedOrder :
              (ExpiresOf(EmittedOrder[i]) = Expires59m
                 /\ ExpiresOf(EmittedOrder[j]) = Expires5m) => i < j

\* C11 amended: the emitted listings are in descending lexical order of
\* their expiry strings, ties in input order, and are the leading listings of
\* that order; a listing expiring "5m" is emitted before one expiring "59m".
C11_DescendingLexical ==
    EmbedDone =>
        /\ EmittedDescending
        /\ \A i, j \in DOMAIN EmittedOrder :
              (ExpiresOf(EmittedOrder[i]) = Expires5m
                 /\ ExpiresOf(EmittedOrder[j]) = Expires59m) => i < j

\* A "59m" listing given first and a "5m" listing given later are both
\* emitted, and some listing is left out.
C11_Witness ==
    /\ EmbedDone
    /\ \E i, j \in DOMAIN EmittedOrder :
          /\ ExpiresOf(EmittedOrder[i]) = Expires5m
          /\ ExpiresOf(EmittedOrder[j]) = Expires59m
          /\ EmittedOrder[j] < EmittedOrder[i]
    /\ NotEmitted > 0

-----------------------------------------------------------------------------
(* filter_listings called on its own: scrape.py *)

FilterListingKinds ==
    {ListingChaos, ListingChaosLate, ListingLight, ListingOtherDuty,
     ListingRawCentre, ListingRawRole}

\* The arguments: a batch of up to MaxBatch listings, a duty name and a
\* member of DataCentre, as a ListingConfig holds them.
FilterArgs ==
    [listings : UNION {[1..n -> FilterListingKinds] : n \in 0..MaxBatch},
     duty_name : {"M4S", "M3S"},
     data_centre : {scrape_data_centre("Chaos"), scrape_data_centre("Light")}]

FilterInit ==
    /\ p_pc = "input"
    /\ p_call = "filter_listings"
    /\ p_args \in FilterArgs
    /\ p_result = None
    /\ EmbedIdle
    /\ RenderIdle
    /\ LoopIdle

FilterCall ==
    /\ p_pc = "input"
    /\ p_call = "filter_listings"
    /\ p_result' = filter_listings(p_args.listings, p_args.duty_name,
                                   p_args.data_centre)
    /\ p_pc' = "done"
    /\ UNCHANGED <<p_call, p_args>>
    /\ UNCHANGED <<e_vars, r_vars, l_vars>>

FilterNext == FilterCall

SpecFilter == FilterInit /\ [][FilterNext]_vars

FilterDone == p_pc = "done" /\ p_call = "filter_listings"

\* The positions of the batch whose listing matches both arguments.
MatchingPositions ==
    {i \in 1..Len(p_args.listings) :
        /\ p_args.listings[i].duty_name = p_args.duty_name
        /\ p_args.listings[i].data_centre = p_args.data_centre}

\* The k-th smallest of the matching positions.
MatchingPosition(k) ==
    CHOOSE i \in MatchingPositions :
        Cardinality({j \in MatchingPositions : j < i}) = k - 1

\* C12: filter_listings returns exactly the listings of the batch whose duty
\* name and region both equal the arguments, each match once and in the
\* order of the batch, whatever else the batch holds (raw-string regions
\* included).
C12_FilterIsMatchingSubsequence ==
    FilterDone =>
        /\ Len(p_result) = Cardinality(MatchingPositions)
        /\ \A k \in 1..Len(p_result) :
              p_result[k] = p_args.listings[MatchingPosition(k)]

\* Two different matches with a raw-region listing and a listing of the
\* other duty between and around them.
C12_Witness ==
    /\ FilterDone
    /\ Len(p_result) = 2
    /\ p_result[1] # p_result[2]
    /\ \E i \in 1..Len(p_args.listings) :
          p_args.listings[i].data_centre.type = "str"
    /\ Len(p_args.listings) > Len(p_result)

-----------------------------------------------------------------------------
\* Statements about the glyph of an open slot.

\* An open slot with at least one role, every role a member of Role.
OpenKnownRoles ==
    /\ RenderDone
    /\ r_slot.state = "open"
    /\ r_slot.roles # <<>>
    /\ \A j \in 1..Len(r_slot.roles) : r_slot.roles[j].type = "Role"

\* The slot categories and the role categories of the slot's roles.
SlotCategories == {r_types[j].slot_type : j \in 1..Len(r_types)}
RoleCategories == {r_types[j].role_type : j \in 1..Len(r_types)}

\* C13: an open slot whose roles span exactly two of the slot categories
\* dps, healer, tank (and not other) gets the glyph of that pair, whatever
\* the order and the repetitions of its roles; one spanning all three gets
\* the triple glyph.
C13_PairAndTripleGlyph ==
    (OpenKnownRoles /\ "other" \notin SlotCategories)
        => /\ SlotCategories = {"dps", "healer"}
                 => r_emoji = free_glyph("dps_healer")
           /\ SlotCategories = {"dps", "tank"}
                 => r_emoji = free_glyph("dps_tank")
           /\ SlotCategories = {"healer", "tank"}
                 => r_emoji = free_glyph("healer_tank")
           /\ SlotCategories = {"dps", "healer", "tank"}
                 => r_emoji = free_glyph("dps_healer_tank")

\* A tank role listed before a dps role and listed again after it.
C13_Witness ==
    /\ OpenKnownRoles
    /\ SlotCategories = {"dps", "tank"}
    /\ Len(r_slot.roles) = 3
    /\ r_types[1].slot_type = "tank"
    /\ r_types[2].slot_type = "dps"
    /\ r_types[3].slot_type = "tank"
    /\ r_emoji = free_glyph("dps_tank")

\* The attribute of free_slots named after a role category, and whether it
\* holds a glyph: tank and other always do, the others when configured.
RoleCategoryAttr(c) ==
    CASE c = "TANK" -> "tank"
      [] c = "REGEN_HEALER" -> "regen_healer"
      [] c = "SHIELD_HEALER" -> "shield_healer"
      [] c = "MELEE_DPS" -> "melee_dps"
      [] c = "RANGED_DPS" -> "ranged_dps"
      [] c = "MAGICAL_DPS" -> "magical_dps"
      [] c = "OTHER" -> "other"

RoleCategoryConfigured(c) ==
    c \in {"TANK", "OTHER"} \/ RoleCategoryAttr(c) \in r_free

\* The slot has one role and that role has a glyph of its own.
SingleRoleOverride ==
    /\ Len(r_slot.roles) = 1
    /\ r_slot.roles[1].value \notin OtherRoles
    /\ lower(r_slot.roles[1].value) \in r_free

\* C14: an open slot whose roles (at least one) are all of one role category
\* gets the glyph configured for that role category, unless it has a single
\* role with a glyph of its own; when the role category has no glyph
\* configured, it gets the glyph of the roles' slot category.
C14_RoleCategoryGlyph ==
    (OpenKnownRoles /\ Cardinality(RoleCategories) = 1 /\ ~SingleRoleOverride)
        => LET c == CHOOSE x \in RoleCategories : TRUE
               sc == CHOOSE x \in SlotCategories : TRUE
           IN  IF RoleCategoryConfigured(c)
               THEN /\ r_emoji = free_glyph(RoleCategoryAttr(c))
                    /\ r_tier = "role_types"
               ELSE /\ r_emoji = free_glyph(sc)
                    /\ r_tier = "slot_types"

\* Two healers of one role category whose glyph is configured, while the
\* slot category glyph differs from it.
C14_Witness ==
    /\ OpenKnownRoles
    /\ RoleCategories = {"REGEN_HEALER"}
    /\ Len(r_slot.roles) = 2
    /\ "regen_healer" \in r_free
    /\ r_emoji = free_glyph("regen_healer")

-----------------------------------------------------------------------------
(* Description splitting: bot.py, DiscordClient._extract_description_tags *)

\* A text is a sequence of characters, each a string of length one.
Whitespace == {" "}

\* str.find and str.rfind of a single character: the 0-based index of its
\* first or last occurrence, -1 when there is none.
py_find(text, c) ==
    IF \A i \in 1..Len(text) : text[i] # c THEN -1
    ELSE (CHOOSE i \in 1..Len(text) :
              text[i] = c /\ \A j \in 1..(i - 1) : text[j] # c) - 1

py_rfind(text, c) ==
    IF \A i \in 1..Len(text) : text[i] # c THEN -1
    ELSE (CHOOSE i \in 1..Len(text) :
              text[i] = c /\ \A j \in (i + 1)..Len(text) : text[j] # c) - 1

\* The slices text[:n] and text[n:] for n >= 0.
SliceTo(text, n) == SubSeq(text, 1, IF n < Len(text) THEN n ELSE Len(text))
SliceFrom(text, n) == SubSeq(text, n + 1, Len(text))

\* str.strip(): leading, then trailing whitespace is taken away.
RECURSIVE lstrip(_)
lstrip(text) ==
    IF text # <<>> /\ Head(text) \in Whitespace THEN lstrip(Tail(text))
    ELSE text

RECURSIVE rstrip(_)
rstrip(text) ==
    IF text # <<>> /\ text[Len(text)] \in Whitespace
    THEN rstrip(SubSeq(text, 1, Len(text) - 1))
    ELSE text

strip(text) == rstrip(lstrip(text))

\* A variant that splits at the first "]".
extract_description_tags_FirstBracket(full_description) ==
    LET first_bracket_pos == py_find(full_description, "]")
    IN  [tags |-> strip(SliceTo(full_description, first_bracket_pos + 1)),
         desc |-> strip(SliceFrom(full_description, first_bracket_pos + 1))]

\* _extract_description_tags
extract_description_tags(full_description) ==
    LET last_bracket_pos == py_rfind(full_description, "]")
    IN  [tags |-> strip(SliceTo(full_description, last_bracket_pos + 1)),
         desc |-> strip(SliceFrom(full_description, last_bracket_pos + 1))]

\* "[TagA][TagB] Some text"
TaggedDescription ==
    <<"[", "T", "a", "g", "A", "]", "[", "T", "a", "g", "B", "]", " ",
      "S", "o", "m", "e", " ", "t", "e", "x", "t">>

\* The descriptions called with: every text of up to MaxDesc characters over
\* brackets, a blank and a letter, and the tagged description above.
DescriptionChars == {"[", "]", " ", "a"}

DescriptionInputs ==
    UNION {[1..n -> DescriptionChars] : n \in 0..MaxDesc}
        \cup {TaggedDescription}

TagsInit ==
    /\ p_pc = "input"
    /\ p_call = "_extract_description_tags"
    /\ p_args \in DescriptionInputs
    /\ p_result = None
    /\ EmbedIdle
    /\ RenderIdle
    /\ LoopIdle

TagsCall ==
    /\ p_pc = "input"
    /\ p_call = "_extract_description_tags"
    /\ p_result' = extract_description_tags(p_args)
    /\ p_pc' = "done"
    /\ UNCHANGED <<p_call, p_args>>
    /\ UNCHANGED <<e_vars, r_vars, l_vars>>

TagsNext == TagsCall

SpecTags == TagsInit /\ [][TagsNext]_vars

TagsDone == p_pc = "done" /\ p_call = "_extract_description_tags"

\* t is s without its leading and trailing whitespace.
IsTrimOf(t, s) ==
    /\ t = <<>> \/ (t[1] \notin Whitespace /\ t[Len(t)] \notin Whitespace)
    /\ \E a \in 0..(Len(s) - Len(t)) :
          /\ SubSeq(s, a + 1, a + Len(t)) = t
          /\ \A i \in (1..a) \cup ((a + Len(t) + 1)..Len(s)) :
                s[i] \in Whitespace

\* C15: the tag block is the text up to and including its last "]" and the
\* body the text after it, both without leading and trailing whitespace; a
\* text without "]" has an empty tag block and the whole (trimmed) text as
\* body; "[TagA][TagB] Some text" gives "[TagA][TagB]" and "Some text".
C15_SplitAtLastBracket ==
    TagsDone =>
        /\ IF \A i \in 1..Len(p_args) : p_args[i] # "]"
           THEN /\ p_result.tags = <<>>
                /\ IsTrimOf(p_result.desc, p_args)
           ELSE \E p \in 1..Len(p_args) :
                   /\ p_args[p] = "]"
                   /\ \A q \in (p + 1)..Len(p_args) : p_args[q] # "]"
                   /\ IsTrimOf(p_result.tags, SubSeq(p_args, 1, p))
                   /\ IsTrimOf(p_result.desc, SubSeq(p_args, p + 1, Len(p_args)))
        /\ p_args = TaggedDescription
              => /\ p_result.tags = SubSeq(TaggedDescription, 1, 12)
                 /\ p_result.desc = SubSeq(TaggedDescription, 14, 22)

\* The tagged description has been split: two "]" and a blank after the
\* last.
C15_Witness ==
    /\ TagsDone
    /\ p_args = TaggedDescription
    /\ Len(p_result.tags) = 12
    /\ Len(p_result.desc) = 9

-----------------------------------------------------------------------------
\* Statements about the stored snapshot of the update scheduler.

\* self.listings holds, for every tracked target, the filter of the one
\* batch of the last update() that returned.
SnapshotWhole ==
    /\ u_fetched # <<>>
    /\ DOMAIN u_listings = TargetNames
    /\ \A k \in 1..Len(Targets) :
          u_listings[Targets[k].name] =
              filter_listings(u_fetched[1], Targets[k].duty_name,
                              Targets[k].data_centre)

\* update() raises in this step.
RefreshFails == proc = "running" /\ proc' = "exited" /\ exc' \in ScrapeErrors

\* C16: whenever messages() reads the stored snapshot to yield an update,
\* the snapshot holds for every tracked target the filter of one single
\* batch, and an update() that fails leaves the snapshot as it was.
C16_SnapshotWholesale ==
    [][/\ (\E t \in Tasks : Yielded(t)) => SnapshotWhole'
       /\ RefreshFails => u_vars' = u_vars
      ]_vars

\* An update() failed after an earlier one had stored a snapshot, which is
\* still there.
C16_Witness ==
    /\ proc = "exited"
    /\ exc \in ScrapeErrors
    /\ SnapshotWhole
    /\ \E m \in MessageIds : sink[m] # <<>>

-----------------------------------------------------------------------------
(* Document parsing: scrape.py, scrape_listings from line 255 on *)

ValueError == "ValueError"
IndexError == "IndexError"

DigitChars == {"0", "1", "2", "3", "4", "5", "6", "7", "8", "9"}

DigitValue(c) ==
    CASE c = "0" -> 0 [] c = "1" -> 1 [] c = "2" -> 2 [] c = "3" -> 3
      [] c = "4" -> 4 [] c = "5" -> 5 [] c = "6" -> 6 [] c = "7" -> 7
      [] c = "8" -> 8 [] c = "9" -> 9

\* int(text) for a text of decimal digits; <<>> stands for the ValueError
\* that any other text raises (signs, blanks and underscores, which int
\* also accepts, are not among the texts called with).
RECURSIVE DecimalValue(_, _)
DecimalValue(text, acc) ==
    IF text = <<>> THEN acc
    ELSE DecimalValue(Tail(text), 10 * acc + DigitValue(Head(text)))

py_int(text) ==
    IF text # <<>> /\ \A i \in 1..Len(text) : text[i] \in DigitChars
    THEN <<DecimalValue(text, 0)>>
    ELSE <<>>

\* text.split("/"): the pieces between the slashes.
RECURSIVE SplitFrom(_, _, _)
SplitFrom(text, piece, pieces) ==
    IF text = <<>> THEN Append(pieces, piece)
    ELSE IF Head(text) = "/"
         THEN SplitFrom(Tail(text), <<>>, Append(pieces, piece))
         ELSE SplitFrom(Tail(text), Append(piece, Head(text)), pieces)

split(text) == SplitFrom(text, <<>>, <<>>)

\* The body of the for loop for one listing_div, by the attributes and
\* texts that decide the numeric fields: the Listing appended, or the
\* exception raised.
scrape_listing(listing_div) ==
    LET parts == split(listing_div.total)
        filled_count == py_int(parts[1])
        total_count == py_int(parts[2])
        item_level == py_int(listing_div.value)
    IN  IF filled_count = <<>> THEN [raised |-> ValueError, listing |-> <<>>]
        ELSE IF Len(parts) < 2 THEN [raised |-> IndexError, listing |-> <<>>]
        ELSE IF total_count = <<>> THEN [raised |-> ValueError, listing |-> <<>>]
        ELSE IF item_level = <<>> THEN [raised |-> ValueError, listing |-> <<>>]
        ELSE [raised |-> None,
              listing |-> << [duty_name |-> listing_div.duty,
                              data_centre |->
                                  scrape_data_centre(listing_div.data_centre),
                              creator |-> listing_div.creator,
                              filled |-> filled_count[1],
                              total |-> total_count[1],
                              item_level |-> item_level[1]] >>]

\* A variant of the loop that leaves out a listing whose fields do not parse.
RECURSIVE ScrapeFrom_SkipMalformed(_, _, _)
ScrapeFrom_SkipMalformed(divs, k, listings) ==
    IF k > Len(divs) THEN [raised |-> None, returned |-> listings]
    ELSE ScrapeFrom_SkipMalformed(divs, k + 1,
                                  listings \o scrape_listing(divs[k]).listing)

\* The for loop of lines 258-370 from the k-th listing_div on and the return
\* of line 372; an exception leaves the function with nothing returned.
RECURSIVE ScrapeFrom(_, _, _)
ScrapeFrom(divs, k, listings) ==
    IF k > Len(divs) THEN [raised |-> None, returned |-> listings]
    ELSE IF scrape_listing(divs[k]).raised # None
         THEN [raised |-> scrape_listing(divs[k]).raised, returned |-> <<>>]
         ELSE ScrapeFrom(divs, k + 1, listings \o scrape_listing(divs[k]).listing)

\* scrape_listings, given the listing divs of the document fetched.
scrape_listings(divs) == ScrapeFrom(divs, 1, <<>>)

\* Listing divs of a document: the data-centre attribute and the texts of
\* the duty, total, value and creator elements.
ListingDiv(data_centre, duty, total, value, creator) ==
    [data_centre |-> data_centre, duty |-> duty, total |-> total,
     value |-> value, creator |-> creator]

DivAnn == ListingDiv("Chaos", "M4S", <<"3", "/", "8">>, <<"7", "3", "0">>, "Ann")
DivBob == ListingDiv("Shadow", "M3S", <<"1", "/", "4">>, <<"0">>, "Bob")
DivBadFilled ==
    ListingDiv("Chaos", "M4S", <<"x", "/", "8">>, <<"7", "3", "0">>, "Cid")
DivBadTotal ==
    ListingDiv("Light", "M4S", <<"3", "/", "?">>, <<"7", "3", "0">>, "Dee")
DivBadItemLevel ==
    ListingDiv("Chaos", "M4S", <<"3", "/", "8">>, <<>>, "Eve")

WellFormedDivs == {DivAnn, DivBob}
MalformedDivs == {DivBadFilled, DivBadTotal, DivBadItemLevel}

DocumentInputs ==
    UNION {[1..n -> WellFormedDivs \cup MalformedDivs] : n \in 0..MaxDivs}

ScrapeInit ==
    /\ p_pc = "input"
    /\ p_call = "scrape_listings"
    /\ p_args \in DocumentInputs
    /\ p_result = None
    /\ EmbedIdle
    /\ RenderIdle
    /\ LoopIdle

ScrapeCall ==
    /\ p_pc = "input"
    /\ p_call = "scrape_listings"
    /\ p_result' = scrape_listings(p_args)
    /\ p_pc' = "done"
    /\ UNCHANGED <<p_call, p_args>>
    /\ UNCHANGED <<e_vars, r_vars, l_vars>>

ScrapeNext == ScrapeCall

SpecScrape == ScrapeInit /\ [][ScrapeNext]_vars

ScrapeDone == p_pc = "done" /\ p_call = "scrape_listings"

\* C17: when the filled count, the total count or the item level of any one
\* listing of the document is no integer, scrape_listings raises (the
\* ValueError of int) and returns no listing, those parsed before the
\* malformed one included; a document without such a listing gives one
\* listing per div, in order.
C17_MalformedNumberFailsDocument ==
    ScrapeDone =>
        IF \E i \in 1..Len(p_args) : p_args[i] \in MalformedDivs
        THEN p_result = [raised |-> ValueError, returned |-> <<>>]
        ELSE /\ p_result.raised = None
             /\ Len(p_result.returned) = Len(p_args)
             /\ \A i \in 1..Len(p_args) :
                   p_result.returned[i].creator = p_args[i].creator

\* Two well-formed listings followed by one whose item level is no integer.
C17_Witness ==
    /\ ScrapeDone
    /\ p_args = <<DivAnn, DivBob, DivBadItemLevel>>
    /\ p_result.raised = ValueError
    /\ p_result.returned = <<>>

-----------------------------------------------------------------------------
\* Statements about the glyph of a filled slot and about the last resort of
\* an open slot.

\* The filled glyph of a slot category without roles.
FilledDefault(slot_type) ==
    CASE slot_type = "dps" -> filled_glyph("mnk")
      [] slot_type = "healer" -> filled_glyph("whm")
      [] slot_type = "tank" -> filled_glyph("pld")
      [] slot_type = "other" -> filled_glyph("other")

\* C18: rendering a filled slot never raises; without roles the glyph is the
\* default of the slot category (dps: MNK, healer: WHM, tank: PLD, other:
\* the filled catch-all); with roles it is the filled glyph of the first
\* role, or the filled catch-all when that role has none.
C18_FilledSlotGlyph ==
    (RenderDone /\ r_slot.state = "filled")
        => /\ r_emoji # AttributeError
           /\ r_tier # "raised"
           /\ r_slot.roles = <<>> => r_emoji = FilledDefault(r_slot.slot_type)
           /\ r_slot.roles # <<>>
                 => r_emoji =
                       IF r_slot.roles[1].value \in RoleMembers \ OtherRoles
                       THEN filled_glyph(lower(r_slot.roles[1].value))
                       ELSE filled_glyph("other")

\* C19: an open slot with at least one role, every role a member of Role,
\* gets its glyph from the single role, the role category or the slot
\* category: _get_emoji_open never leaves by its logged fallback.
C19_FallbackUnreachable ==
    OpenKnownRoles
        => /\ r_tier \in {"single_role", "role_types", "slot_types"}
           /\ r_emoji # NoEmoji

\* Roles of all three slot categories and no optional glyph configured: the
\* last tier decides.
C19_Witness ==
    /\ OpenKnownRoles
    /\ Cardinality(SlotCategories) = 3
    /\ r_free = {}
    /\ r_tier = "slot_types"

====
